---- MODULE Spec2Model ----
(***************************************************************************)
(* Model of murky's src/lib.rs: a binary Merkle tree over string leaves.   *)
(*                                                                         *)
(* Digests are symbolic: keccak(data) is the term "H(" data ")", so keccak *)
(* is collision-free by construction.  A digest's 32 raw bytes are the     *)
(* term itself, and the concatenation of two digests is the concatenation  *)
(* of the two terms (which, like the concatenation of two fixed-width      *)
(* 32-byte arrays, determines both halves).  No domain separation is       *)
(* added anywhere, as in the source.                                       *)
(*                                                                         *)
(* Spec is a caller that constructs one tree and calls root_hash and the    *)
(* Display formatter on it.  PairSpec is a caller that constructs one tree *)
(* per binding in Slots and calls root_hash on each, as                    *)
(* tests::test_different_value does; it is where two trees are compared.   *)
(***************************************************************************)
EXTENDS Integers, Sequences, FiniteSets, TLC

\* ---------------------------------------------------------------- bounds
MaxLeaves == 8
MaxPairLeaves == 5

\* The characters a leaf string is drawn from; a leaf is a one-character string.
Alphabet == {"a", "b"}

\* The caller's tree bindings (tree1, tree2 of tests::test_different_value).
Slots == {1, 2}

LeafLists == UNION {[1..n -> Alphabet] : n \in 0..MaxLeaves}
PairLeafLists == UNION {[1..n -> Alphabet] : n \in 0..MaxPairLeaves}

\* ---------------------------------------------------------------- values
NoLevels == <<>>
NoRet == ""
NoPanic == ""
IndexOutOfBounds == "index out of bounds: the len is 0 but the index is 0"

NoTree == [built |-> FALSE, leaves |-> <<>>, hashes |-> NoLevels]
NoOut == [slot |-> 0, lines |-> <<>>]

\* ---------------------------------------------------------------- helpers

\* fn keccak(data: &[u8]) -> [u8; 32]
keccak(data) == "H(" \o data \o ")"

\* [x.as_slice(), y.as_slice()].concat()
concat(x, y) == x \o y

\* leaves.iter().map(|leaf| keccak(leaf.as_bytes())).collect()
leaf_hashes(ls) == [i \in 1..Len(ls) |-> keccak(ls[i])]

\* while branch_nodes.len() > 1
LoopCondGt2(nodes) == Len(nodes) > 2
LoopCond(nodes) == Len(nodes) > 1

\* The body of `for chunk in chunks`: one parent per exact chunk of two.
ChunkHashSwapped(chunk) == keccak(concat(chunk[2], chunk[1]))
ChunkHashLeftOnly(chunk) == keccak(concat(chunk[1], chunk[1]))
ChunkHash(chunk) == keccak(concat(chunk[1], chunk[2]))

\* branch_nodes.chunks_exact(2): the i-th exact chunk (1-based).
chunks_exact(nodes) ==
    [i \in 1..(Len(nodes) \div 2) |-> <<nodes[2 * i - 1], nodes[2 * i]>>]

\* chunks.remainder(): the Len % 2 trailing elements left out of the chunks.
remainder(nodes) ==
    SubSeq(nodes, 2 * (Len(nodes) \div 2) + 1, Len(nodes))

\* if remainder.len() == 1 { push keccak(remainder[0] || remainder[0]) }
RemainderNodesCarried(rem) ==
    IF Len(rem) = 1 THEN <<rem[1]>> ELSE <<>>
RemainderNodesDropped(rem) == <<>>
RemainderNodes(rem) ==
    IF Len(rem) = 1 THEN <<keccak(concat(rem[1], rem[1]))>> ELSE <<>>

\* One pass of the while body: new_branch_nodes.
new_branch_nodes(nodes) ==
    LET chunks == chunks_exact(nodes)
    IN  [i \in 1..Len(chunks) |-> ChunkHash(chunks[i])]
            \o RemainderNodes(remainder(nodes))

\* hashes.reverse()
ReverseNot(s) == s
Reverse(s) == [i \in 1..Len(s) |-> s[Len(s) + 1 - i]]

\* self.hashes[0][0] is in bounds
RootInBounds(t) == Len(t.hashes) >= 1 /\ Len(t.hashes[1]) >= 1

\* MerkleTree::root_hash: self.hashes[0][0]
root_hash_leaf_level(t) == t.hashes[Len(t.hashes)][1]
root_hash(t) == t.hashes[1][1]

\* hex::encode(hash)
hex_encode(hash) == "hex[" \o hash \o "]"

\* "Leaves:\n" and one line "  {i}: {leaf}\n" per leaf, i counted from 0.
LeafLines(ls) ==
    <<"Leaves:">> \o [i \in 1..Len(ls) |-> "  " \o ToString(i - 1) \o ": " \o ls[i]]

\* The lines printed for the level at storage index `level` (counted from 0).
LevelLines(hs, level) ==
    LET lvl == hs[level + 1]
    IN  IF Len(lvl) = 1
        THEN <<"Root Hash:", "  " \o hex_encode(lvl[1])>>
        ELSE <<"Level " \o ToString(level) \o ":">>
                 \o [i \in 1..Len(lvl) |-> "  " \o hex_encode(lvl[i])]

\* self.hashes.iter().enumerate().rev(): the storage indices in visiting order.
LevelOrderForward(n) == [i \in 1..n |-> i - 1]
LevelOrder(n) == [i \in 1..n |-> n - i]

RECURSIVE LevelsFrom(_, _, _)
LevelsFrom(hs, order, k) ==
    IF k > Len(order) THEN <<>>
    ELSE LevelLines(hs, order[k]) \o LevelsFrom(hs, order, k + 1)

\* <MerkleTree as Display>::fmt: tree_str, one element per line.
fmt(t) == LeafLines(t.leaves) \o LevelsFrom(t.hashes, LevelOrder(Len(t.hashes)), 1)

\* ---------------------------------------------------------------- state
VARIABLES
    pc,            \* "idle", "build" (inside build), "panicked"
    cur,           \* the binding MerkleTree::new is constructing, 0 if none
    leaves,        \* build's argument
    hashes,        \* build's local `hashes` (leaf level first until reversed)
    branch_nodes,  \* build's local `branch_nodes`
    tree,          \* the constructed trees, per binding
    ret,           \* the digest root_hash last returned, per binding
    out,           \* what fmt last wrote, and for which binding
    panic          \* the panic message, when pc = "panicked"

vars == <<pc, cur, leaves, hashes, branch_nodes, tree, ret, out, panic>>

Init ==
    /\ pc = "idle"
    /\ cur = 0
    /\ leaves = <<>>
    /\ hashes = NoLevels
    /\ branch_nodes = <<>>
    /\ tree = [s \in Slots |-> NoTree]
    /\ ret = [s \in Slots |-> NoRet]
    /\ out = NoOut
    /\ panic = NoPanic

\* MerkleTree::new(leaves) entering build: lines 30-33.
New(s, ls) ==
    /\ pc = "idle"
    /\ ~tree[s].built
    /\ pc' = "build"
    /\ cur' = s
    /\ leaves' = ls
    /\ hashes' = <<leaf_hashes(ls)>>
    /\ branch_nodes' = leaf_hashes(ls)
    /\ UNCHANGED <<tree, ret, out, panic>>

\* One iteration of the while loop: lines 36-52.
LoopIter ==
    /\ pc = "build"
    /\ LoopCond(branch_nodes)
    /\ hashes' = Append(hashes, new_branch_nodes(branch_nodes))
    /\ branch_nodes' = new_branch_nodes(branch_nodes)
    /\ UNCHANGED <<pc, cur, leaves, tree, ret, out, panic>>

\* Loop exit, hashes.reverse(), return, and MerkleTree { leaves, hashes }.
BuildReturn ==
    /\ pc = "build"
    /\ ~LoopCond(branch_nodes)
    /\ tree' = [tree EXCEPT ![cur] =
                    [built |-> TRUE, leaves |-> leaves, hashes |-> Reverse(hashes)]]
    /\ pc' = "idle"
    /\ cur' = 0
    /\ leaves' = <<>>
    /\ hashes' = NoLevels
    /\ branch_nodes' = <<>>
    /\ UNCHANGED <<ret, out, panic>>

\* tree.root_hash(): an index out of bounds panics.
RootHash(s) ==
    /\ pc = "idle"
    /\ tree[s].built
    /\ IF RootInBounds(tree[s])
       THEN /\ ret' = [ret EXCEPT ![s] = root_hash(tree[s])]
            /\ UNCHANGED <<pc, panic>>
       ELSE /\ pc' = "panicked"
            /\ panic' = IndexOutOfBounds
            /\ UNCHANGED ret
    /\ UNCHANGED <<cur, leaves, hashes, branch_nodes, tree, out>>

\* format!("{}", tree)
Display(s) ==
    /\ pc = "idle"
    /\ tree[s].built
    /\ out' = [slot |-> s, lines |-> fmt(tree[s])]
    /\ UNCHANGED <<pc, cur, leaves, hashes, branch_nodes, tree, ret, panic>>

\* One tree: construct it, then read it.
Next ==
    \/ \E ls \in LeafLists : New(1, ls)
    \/ LoopIter
    \/ BuildReturn
    \/ RootHash(1)
    \/ Display(1)

Spec == Init /\ [][Next]_vars

\* build is straight-line code: once entered, it keeps running.
FairSpec == Spec /\ WF_vars(LoopIter) /\ WF_vars(BuildReturn)

\* Two trees: construct each, then compare their root hashes.
NextPair ==
    \/ \E s \in Slots, ls \in PairLeafLists : New(s, ls)
    \/ LoopIter
    \/ BuildReturn
    \/ \E s \in Slots : RootHash(s)

PairSpec == Init /\ [][NextPair]_vars

\* ---------------------------------------------------------------- claims

Built(s) == tree[s].built

\* ceil(m / 2)
CeilHalf(m) == (m + 1) \div 2

\* ceil(log2(n)) for n >= 1: the least k with 2^k >= n.
CeilLog2(n) == CHOOSE k \in 0..n : 2 ^ k >= n /\ \A j \in 0..(k - 1) : 2 ^ j < n

\* C1: for a non-empty leaf list of length n the stored hierarchy is
\* root-first: level 0 has length 1, the last level has length n and its
\* i-th entry is keccak(leaf_i), in input order.
C1_RootFirst ==
    \A s \in Slots :
        (Built(s) /\ Len(tree[s].leaves) >= 1) =>
            LET t == tree[s]
                last == t.hashes[Len(t.hashes)]
            IN  /\ Len(t.hashes) >= 1
                /\ Len(t.hashes[1]) = 1
                /\ Len(last) = Len(t.leaves)
                /\ \A i \in 1..Len(t.leaves) : last[i] = "H(" \o t.leaves[i] \o ")"

C1_Witness ==
    /\ Built(1)
    /\ tree[1].leaves = <<"a", "b", "a", "a", "b">>
    /\ Len(tree[1].hashes) = 4

\* C2: an empty leaf list is either rejected (no tree is built) or yields
\* a canonical empty tree of zero levels on which root_hash fails with an
\* empty-tree error: once root_hash has been called on a tree built from
\* no leaves, the tree holds zero levels, no digest was returned and the
\* failure is not an out-of-bounds access.
C2_EmptyIsDefined ==
    \A s \in Slots :
        (/\ Built(s)
         /\ tree[s].leaves = <<>>
         /\ (pc = "panicked" \/ ret[s] # NoRet))
        => /\ Len(tree[s].hashes) = 0
           /\ ret[s] = NoRet
           /\ panic # IndexOutOfBounds

\* C5: reducing a level of odd length m > 1 with trailing digest a gives
\* ceil(m/2) digests, the last being keccak(a || a): a is neither dropped,
\* nor carried up unchanged, nor hashed alone.
C5_OddDuplication ==
    [][(/\ pc = "build"
        /\ pc' = "build"
        /\ Len(branch_nodes) > 1
        /\ Len(branch_nodes) % 2 = 1)
       => LET m == Len(branch_nodes)
              a == branch_nodes[m]
              parent == branch_nodes'[Len(branch_nodes')]
          IN  /\ Len(branch_nodes') = CeilHalf(m)
              /\ parent = "H(" \o a \o a \o ")"
              /\ parent # a
              /\ parent # "H(" \o a \o ")"
              /\ hashes' = Append(hashes, branch_nodes')]_vars

\* An odd level of length > 1 has just been reduced.
C5_Witness ==
    /\ pc = "build"
    /\ Len(hashes) >= 2
    /\ Len(hashes[Len(hashes) - 1]) = 5
    /\ Len(branch_nodes) = 3

\* C6: a non-empty list of n leaves gives ceil(log2(n)) + 1 levels: 3 for 4
\* leaves, 4 for 5 leaves, 1 for a single leaf.
C6_LevelCount ==
    \A s \in Slots :
        (Built(s) /\ Len(tree[s].leaves) >= 1) =>
            LET n == Len(tree[s].leaves)
                levels == Len(tree[s].hashes)
            IN  /\ levels = CeilLog2(n) + 1
                /\ (n = 1 => levels = 1)
                /\ (n = 4 => levels = 3)
                /\ (n = 5 => levels = 4)
                /\ (n = 8 => levels = 4)

C6_Witness ==
    /\ Built(1)
    /\ Len(tree[1].leaves) = 5
    /\ Len(tree[1].hashes) = 4

\* C9: for adjacent stored levels P (index k) and C (index k+1),
\* len(P) = ceil(len(C)/2) and P[i] = keccak(C[2i] || C[2i+1]) for every
\* full pair, left digest first.
C9_PairingRule ==
    \A s \in Slots :
        Built(s) =>
            \A k \in 1..(Len(tree[s].hashes) - 1) :
                LET P == tree[s].hashes[k]
                    C == tree[s].hashes[k + 1]
                IN  /\ Len(P) = CeilHalf(Len(C))
                    /\ \A i \in 1..(Len(C) \div 2) :
                           P[i] = "H(" \o C[2 * i - 1] \o C[2 * i] \o ")"

C9_Witness ==
    /\ Built(1)
    /\ tree[1].leaves = <<"a", "b", "b", "a", "b">>
    /\ Len(tree[1].hashes[2]) = 2

\* C7: root_hash is a pure read accessor: on a tree built from a non-empty
\* list it returns the digest stored at level 0, position 0, it leaves the
\* tree unchanged, and repeated calls return the identical digest (a value
\* once returned for a tree is never replaced by another).
C7_RootHashPureRead ==
    [][\A s \in Slots :
          ret'[s] # ret[s] =>
              /\ Built(s) /\ Len(tree[s].leaves) >= 1
              /\ ret'[s] = tree[s].hashes[1][1]
              /\ ret[s] = NoRet
              /\ tree' = tree]_vars

C7_Witness ==
    /\ Built(1)
    /\ Len(tree[1].leaves) = 5
    /\ ret[1] = tree[1].hashes[1][1]
    /\ ret[1] # tree[1].hashes[4][1]

\* The number of lines fmt writes for the levels at the storage indices in ks.
RECURSIVE BlockLines(_, _)
BlockLines(hs, ks) ==
    IF ks = {} THEN 0
    ELSE LET k == CHOOSE x \in ks : TRUE
         IN  1 + Len(hs[k + 1]) + BlockLines(hs, ks \ {k})

\* The header of the level at storage index k (counted from 0).
Label(hs, k) ==
    IF Len(hs[k + 1]) = 1 THEN "Root Hash:" ELSE "Level " \o ToString(k) \o ":"

\* `lines` shows the leaves with their indices, and then each level as its
\* header and its digests, the level at storage index k coming after the
\* levels at the storage indices Before(k).
Rendering(lines, t, Before(_)) ==
    LET n == Len(t.leaves)
        L == Len(t.hashes)
    IN  /\ Len(lines) = 1 + n + BlockLines(t.hashes, 0..(L - 1))
        /\ lines[1] = "Leaves:"
        /\ \A i \in 1..n : lines[1 + i] = "  " \o ToString(i - 1) \o ": " \o t.leaves[i]
        /\ \A k \in 0..(L - 1) :
               LET start == 1 + n + BlockLines(t.hashes, Before(k))
                   lvl == t.hashes[k + 1]
               IN  /\ lines[start + 1] = Label(t.hashes, k)
                   /\ \A i \in 1..Len(lvl) :
                          lines[start + 1 + i] = "  " \o "hex[" \o lvl[i] \o "]"

\* C8 as stated: fmt emits the leaves with their indices and then the
\* levels in root-to-leaf order (storage index 0 first, leaf level last), a
\* level of one digest headed "Root Hash", any other "Level <index>".
C8_RootToLeafOrder ==
    out.slot # 0 =>
        LET t == tree[out.slot]
        IN  Rendering(out.lines, t, LAMBDA k : 0..(k - 1))

\* C8 as amended: the levels come in leaf-to-root order (last storage index
\* first, storage index 0 last), with the same headers.
C8_LeafToRootOrder ==
    out.slot # 0 =>
        LET t == tree[out.slot]
        IN  Rendering(out.lines, t, LAMBDA k : (k + 1)..(Len(t.hashes) - 1))

C8_Witness ==
    /\ out.slot = 1
    /\ tree[1].leaves = <<"a", "b", "a", "b", "b">>
    /\ out.lines[1] = "Leaves:"
    /\ out.lines[7] = "Level 3:"
    /\ out.lines[13] = "Level 2:"
    /\ out.lines[17] = "Level 1:"
    /\ out.lines[20] = "Root Hash:"
    /\ Len(out.lines) = 21

\* C10: build terminates; each loop iteration replaces a level of length
\* m > 1 by a strictly shorter one of length ceil(m/2) >= 1; the loop stops
\* exactly when the level has length 1 (0 only for the empty input, whose
\* loop never runs); for inputs of length 0 or 1 the body never executes.
C10_BuildTerminates ==
    /\ (pc = "build") ~> (pc = "idle")
    /\ [][(pc = "build" /\ pc' = "build") =>
             LET m == Len(branch_nodes)
             IN  /\ m > 1
                 /\ Len(leaves) > 1
                 /\ Len(branch_nodes') = CeilHalf(m)
                 /\ Len(branch_nodes') < m
                 /\ Len(branch_nodes') >= 1
                 /\ Len(hashes') = Len(hashes) + 1]_vars
    /\ [][(pc = "build" /\ pc' = "idle") =>
             /\ Len(branch_nodes) = (IF leaves = <<>> THEN 0 ELSE 1)
             /\ (Len(leaves) <= 1 => Len(hashes) = 1)]_vars

\* build is in its third iteration's result: 5 -> 3 -> 2 -> 1.
C10_Witness ==
    /\ pc = "build"
    /\ Len(leaves) = 5
    /\ Len(hashes) = 4
    /\ Len(branch_nodes) = 1

\* C3: the root commits to the whole leaf sequence: two non-empty leaf
\* sequences that differ in any way (value, order or length) have
\* different root hashes.
C3_RootCommitsToSequence ==
    (/\ ret[1] # NoRet
     /\ ret[2] # NoRet
     /\ tree[1].leaves # tree[2].leaves)
    => ret[1] # ret[2]

\* C4: two leaf sequences of the same length n >= 1 that differ in at
\* least one position have different root hashes.
C4_OrderValueSensitive ==
    (/\ ret[1] # NoRet
     /\ ret[2] # NoRet
     /\ Len(tree[1].leaves) = Len(tree[2].leaves)
     /\ \E i \in 1..Len(tree[1].leaves) : tree[1].leaves[i] # tree[2].leaves[i])
    => ret[1] # ret[2]

\* Two permutations of one multiset, both hashed.
C4_Witness ==
    /\ tree[1].leaves = <<"a", "b", "a", "a", "b">>
    /\ tree[2].leaves = <<"b", "a", "a", "a", "b">>
    /\ ret[1] = tree[1].hashes[1][1]
    /\ ret[2] = tree[2].hashes[1][1]

====
